---- MODULE Spec2Model ----
(***************************************************************************)
(* Model of the command-monitoring dispatch engine of pakyas-cli:          *)
(* commands/monitor.rs (the orchestrator `execute`) and external_ping.rs   *)
(* (the dispatcher `dispatch_external_pings` and the migration arbiter     *)
(* `dispatch_await_any_success`).                                          *)
(*                                                                         *)
(* An Option<T> of the source is a set: {} is None, {x} is Some(x).        *)
(***************************************************************************)
EXTENDS Integers, Naturals, Sequences, FiniteSets, TLC

\* ------------------------------------------------------------------ bounds

\* targets the external-monitor configuration can hold for the check
MaxTargets == 2
\* wrapped exit codes 0..MaxSmallCode are enumerated, plus the edge codes of CmdCodes
MaxSmallCode == 1

\* the widest character of a captured text, in UTF-8 bytes
MaxCharWidth == 4
\* captured texts are taken this many bytes around the limit of build_output
Slack == 2
\* the elapsed time of the modelled command, in milliseconds
SampleDurationMs == 40

\* --------------------------------------------------------------- constants

EXIT_MONITORING_FAILURE == 3
\* std::process::ExitCode::FAILURE
EXIT_FAILURE == 1
MIGRATION_MODE_TIMEOUT_MS == 2000
\* the clap default of --external-timeout-ms
DEFAULT_EXTERNAL_TIMEOUT_MS == 5000
\* ExitCode::from takes a u8: `as u8` keeps the low 8 bits
U8_MODULUS == 256
\* ERROR_BODY_MAX_BYTES = 100 * 1024
ERROR_BODY_MAX_BYTES == 102400
\* OUTPUT_MAX_BYTES = 4 * 1024
OUTPUT_MAX_BYTES == 4096
\* send_cronitor cuts the message at this many bytes
CRONITOR_MESSAGE_MAX == 2000
\* the signal number of the modelled signal-terminated child
SampleSignal == 9

None == {}
Some(x) == {x}
Unwrap(o) == CHOOSE x \in o : TRUE

Min(a, b) == IF a <= b THEN a ELSE b

Targets == 1..MaxTargets

\* exit codes the wrapped command is run with: small ones, the code that is
\* also the monitoring-failure code, the end of the u8 range, and one beyond
\* it (a 32-bit code of a non-unix child)
CmdCodes == (0..MaxSmallCode)
              \cup {EXIT_MONITORING_FAILURE, U8_MODULUS - 1, U8_MODULUS}

\* what std::process::ExitStatus can be: exited with a code, or killed by a signal
ExitStatuses == {[code |-> Some(c), signal |-> None] : c \in CmdCodes}
                  \cup {[code |-> None, signal |-> Some(SampleSignal)]}

\* the values of --external-timeout-ms the invocation is made with
ExternalTimeouts == {DEFAULT_EXTERNAL_TIMEOUT_MS}

Fanouts == {"start", "completion", "arbiter"}

\* the bounded waits of await_external_handles
Joins == {"join_start", "join_completion"}

\* every exit status of a unix child: all of [0,255], or killed by a signal
AllExitStatuses == {[code |-> Some(c), signal |-> None] : c \in 0..(U8_MODULUS - 1)}
                     \cup {[code |-> None, signal |-> Some(SampleSignal)]}

\* A String is a sequence of runs: `count` characters of `width` UTF-8 bytes
\* each. Of the characters' values only this is kept: whether they are white
\* space.
Chars(width, count) ==
  IF count = 0 THEN <<>> ELSE <<[width |-> width, count |-> count, blank |-> FALSE]>>

\* `count` ASCII white-space characters
Blanks(count) ==
  IF count = 0 THEN <<>> ELSE <<[width |-> 1, count |-> count, blank |-> TRUE]>>

\* the byte lengths of the captured stderr texts: short, and around the limit
StderrLens == {1} \cup ((OUTPUT_MAX_BYTES - Slack)..(OUTPUT_MAX_BYTES + Slack))

\* what String::from_utf8_lossy(&output.stderr) can hold: nothing, ASCII
\* text, or one wider character followed by ASCII text
StderrTexts ==
  {<<>>} \cup {Chars(1, n) : n \in StderrLens}
         \cup {Chars(w, 1) \o Chars(1, n) : w \in 2..MaxCharWidth, n \in StderrLens}

\* what String::from_utf8_lossy(&output.stdout) can hold
StdoutTexts == {<<>>, Chars(1, 1)}

\* the captured output of the wrapped command
Captures == [stdout : StdoutTexts, stderr : StderrTexts]

\* a command that prints nothing
Silent == [stdout |-> <<>>, stderr |-> <<>>]

\* start_time.elapsed().as_millis()
Durations == {SampleDurationMs}

VARIABLES
  args,        \* MonitorArgs: command_empty, no_external, migration_mode, external_timeout_ms
  given,       \* what the environment has answered so far (each field an Option)
  pc,          \* position of `execute`
  monitors,    \* number of MonitorTargets load_external_config returned
  migration,   \* the effective migration_mode
  result,      \* Option<CommandResult>
  event,       \* per event kind: Option, the PingEvent built for the fan-out
  runId,       \* Option: the run_id generated for the invocation
  primary,     \* set of requests sent to the primary backend
  handle,      \* per dispatcher fan-out: the JoinHandle's task
  task,        \* per fan-out and target: the per-target send
  fanTimeout,  \* per fan-out: Option, the Duration its reqwest client is built with;
               \* per join: Option, the Duration its wait is bounded by
  queue,       \* the arbiter's mpsc channel content
  reported,    \* arbiter tasks that have run tx.send and dropped their sender
  deadline,    \* the arbiter's sleep_until deadline
  early,       \* how far a target's success got while the deadline was pending
  anySuccess,  \* Option<bool>: any_external_success
  exitCode,    \* Option<u8>: the ExitCode chosen by the match on pakyas_result
  printed,     \* warnings and errors printed
  run,         \* 1 for the invocation, 2 for a repeated invocation
  firstExit    \* Option: the exit code the first invocation returned

orch == <<pc, monitors, migration, result, event, runId, primary, exitCode, printed>>
ext  == <<handle, task, fanTimeout>>
arb  == <<queue, reported, deadline, early, anySuccess>>
rep  == <<run, firstExit>>
vars == <<args, given, orch, ext, arb, rep>>

\* ------------------------------------------------------- pure functions

\* the environment's answer to a question: free the first time it is asked,
\* and the recorded answer when the invocation is repeated
Decide(o, D) == IF o = None THEN D ELSE o

\* `x as u8`
AsU8(x) == x % U8_MODULUS

\* mutant: a child without an exit code is taken to have exited 0
exit_code_and_signal_DefaultZero(status) ==
  [exit_code |-> IF status.code = None THEN 0 ELSE Unwrap(status.code),
   signal    |-> status.signal]

\* exit_code_and_signal: status.code().unwrap_or(1), status.signal()
exit_code_and_signal(status) ==
  [exit_code |-> IF status.code = None THEN 1 ELSE Unwrap(status.code),
   signal    |-> status.signal]

\* str::len: the length in bytes
RECURSIVE ByteLen(_)
ByteLen(text) ==
  IF text = <<>> THEN 0
  ELSE Head(text).width * Head(text).count + ByteLen(Tail(text))

\* str::is_char_boundary
RECURSIVE is_char_boundary(_, _)
is_char_boundary(text, index) ==
  IF index = 0 THEN TRUE
  ELSE IF text = <<>> THEN FALSE
  ELSE IF index >= Head(text).width * Head(text).count
    THEN is_char_boundary(Tail(text), index - Head(text).width * Head(text).count)
    ELSE index % Head(text).width = 0

\* &text[start..] for a start that is a character boundary
RECURSIVE SliceFrom(_, _)
SliceFrom(text, start) ==
  IF start = 0 \/ text = <<>> THEN text
  ELSE IF start >= Head(text).width * Head(text).count
    THEN SliceFrom(Tail(text), start - Head(text).width * Head(text).count)
    ELSE <<[Head(text) EXCEPT !.count = Head(text).count - start \div Head(text).width]>>
           \o Tail(text)

\* &text[..n] for an n > 0 that is a character boundary inside the text
RECURSIVE SliceTo(_, _)
SliceTo(text, n) ==
  IF n = 0 \/ text = <<>> THEN <<>>
  ELSE IF n >= Head(text).width * Head(text).count
    THEN <<Head(text)>> \o SliceTo(Tail(text), n - Head(text).width * Head(text).count)
    ELSE <<[Head(text) EXCEPT !.count = n \div Head(text).width]>>

\* str::trim().is_empty()
IsBlank(text) == \A k \in 1..Len(text) : text[k].blank

\* the number of characters of format!("{}", n)
RECURSIVE DecimalLen(_)
DecimalLen(n) ==
  IF n < 0 THEN 1 + DecimalLen(0 - n)
  ELSE IF n < 10 THEN 1
  ELSE 1 + DecimalLen(n \div 10)

\* a call that returned a value, and a call that panicked
Ok(value) == [panicked |-> FALSE, value |-> value]
Panic == [panicked |-> TRUE]

\* the marker of build_output, "...truncated\n" with U+2026 for the dots: one
\* three-byte character and ten ASCII characters
TruncationMarker == Chars(3, 1) \o Chars(1, 10)

\* build_output: None for empty text, the text when it fits, else the marker
\* and the last OUTPUT_MAX_BYTES bytes; `&stderr[start..]` panics when start
\* is not a character boundary
build_output(stderr) ==
  IF ByteLen(stderr) = 0 THEN Ok(None)
  ELSE IF ByteLen(stderr) <= OUTPUT_MAX_BYTES THEN Ok(Some(stderr))
  ELSE IF is_char_boundary(stderr, ByteLen(stderr) - OUTPUT_MAX_BYTES)
    THEN Ok(Some(TruncationMarker
                   \o SliceFrom(stderr, ByteLen(stderr) - OUTPUT_MAX_BYTES)))
    ELSE Panic

\* PingEvent::start
PingEvent_start ==
  [event_type |-> "Start", exit_code |-> None, duration_ms |-> None, output |-> None]

\* PingEvent::success
PingEvent_success(duration_ms) ==
  [event_type |-> "Success", exit_code |-> Some(0),
   duration_ms |-> Some(duration_ms), output |-> None]

\* mutant: every failure is reported with the generic failure code
PingEvent_fail_GenericCode(exit_code, duration_ms, stderr) ==
  IF build_output(stderr).panicked THEN Panic
  ELSE Ok([event_type |-> "Fail", exit_code |-> Some(1),
           duration_ms |-> Some(duration_ms), output |-> build_output(stderr).value])

\* PingEvent::fail
PingEvent_fail(exit_code, duration_ms, stderr) ==
  IF build_output(stderr).panicked THEN Panic
  ELSE Ok([event_type |-> "Fail", exit_code |-> Some(exit_code),
           duration_ms |-> Some(duration_ms), output |-> build_output(stderr).value])

\* mutant: a successful command's event carries the captured text too
PingEvent_completion_AlwaysFail(exit_code, duration_ms, stderr) ==
  PingEvent_fail(exit_code, duration_ms, stderr)

\* PingEvent::completion
PingEvent_completion(exit_code, duration_ms, stderr) ==
  IF exit_code = 0 THEN Ok(PingEvent_success(duration_ms))
  ELSE PingEvent_fail(exit_code, duration_ms, stderr)

\* build_monitors_for_check pushes the targets in this order; the model's
\* target i is of the i-th kind
TargetKinds == <<"healthchecks", "cronitor", "webhook">>

TargetKind(i) == TargetKinds[i]

\* mutant: a Fail event pings the success URL
HealthchecksSuffix_FailAsSuccess(event_type) ==
  IF event_type = "Start" THEN "/start" ELSE ""

\* send_healthchecks: the URL suffix of the event type
HealthchecksSuffix(event_type) ==
  CASE event_type = "Start"   -> "/start"
    [] event_type = "Success" -> ""
    [] event_type = "Fail"    -> "/fail"

\* send_healthchecks: the request made for an event: POST with the output as
\* body when there is one, GET otherwise
send_healthchecks(ev) ==
  [url    |-> "{endpoint}/{uuid}" \o HealthchecksSuffix(ev.event_type),
   method |-> IF ev.output /= None THEN "POST" ELSE "GET",
   body   |-> ev.output]

\* send_cronitor: `&output[..2000]` panics when the output is longer and byte
\* 2000 is not a character boundary
send_cronitor_panics(ev) ==
  /\ ev.output /= None
  /\ ByteLen(Unwrap(ev.output)) > CRONITOR_MESSAGE_MAX
  /\ ~is_char_boundary(Unwrap(ev.output), CRONITOR_MESSAGE_MAX)

\* send_cronitor: the state parameter of the event type
CronitorState(event_type) ==
  CASE event_type = "Start"   -> "run"
    [] event_type = "Success" -> "complete"
    [] event_type = "Fail"    -> "fail"

\* send_cronitor: the GET made for an event, with the message cut at 2000
\* bytes and the duration metric
send_cronitor(ev) ==
  IF send_cronitor_panics(ev) THEN Panic
  ELSE Ok([url     |-> "{endpoint}/p/{api_key}/{monitor_key}?state="
                         \o CronitorState(ev.event_type),
           method  |-> "GET",
           message |-> IF ev.output = None THEN None
                       ELSE IF ByteLen(Unwrap(ev.output)) > CRONITOR_MESSAGE_MAX
                         THEN Some(SliceTo(Unwrap(ev.output), CRONITOR_MESSAGE_MAX))
                         ELSE ev.output,
           metric  |-> ev.duration_ms])

\* send_webhook: the event is POSTed as JSON to the configured URL
send_webhook(ev) ==
  [url |-> "{url}", method |-> "POST", json |-> ev]

\* send_to_target panics while it builds the request for that target
send_to_target_panics(i, ev) ==
  TargetKind(i) = "cronitor" /\ send_cronitor_panics(ev)

\* execute_command: the CommandResult of a child that was spawned
execute_command(status, captured) ==
  [exit_code |-> exit_code_and_signal(status).exit_code,
   signal    |-> exit_code_and_signal(status).signal,
   stdout    |-> captured.stdout,
   stderr    |-> captured.stderr]

\* what ExternalMonitorConfig::load can yield: an error, or a file with a
\* migration_mode flag and the targets built for the check
Configs == {[ok |-> FALSE, migration_mode |-> FALSE, targets |-> 0]}
             \cup [ok : {TRUE}, migration_mode : BOOLEAN, targets : 0..MaxTargets]

\* mutant: a loaded file decides the migration mode alone
load_external_config_FileWins(a, cfg) ==
  IF a.no_external
    THEN [monitors |-> 0, migration_mode |-> FALSE]
    ELSE IF Unwrap(cfg).ok
      THEN [monitors |-> Unwrap(cfg).targets,
            migration_mode |-> Unwrap(cfg).migration_mode]
      ELSE [monitors |-> 0, migration_mode |-> a.migration_mode]

\* load_external_config: (monitors, migration_mode)
load_external_config(a, cfg) ==
  IF a.no_external
    THEN [monitors |-> 0, migration_mode |-> FALSE]
    ELSE IF Unwrap(cfg).ok
      THEN [monitors |-> Unwrap(cfg).targets,
            migration_mode |-> a.migration_mode \/ Unwrap(cfg).migration_mode]
      ELSE [monitors |-> 0, migration_mode |-> a.migration_mode]

\* "Exit code: {}", then "\nSignal: {}" for a signal, then "\n---\n": the
\* byte length of the header of the error body
HeaderLen(r) ==
  (11 + DecimalLen(r.exit_code))
    + (IF r.signal = None THEN 0 ELSE 9 + DecimalLen(Unwrap(r.signal)))
    + 5

\* "\n...(truncated)\n" with U+2026 for the dots
ErrorBodyMarker == Chars(1, 1) \o Chars(3, 1) \o Chars(1, 12)

\* the text the error body takes its details from
ErrorBodySource(r) == IF ~IsBlank(r.stderr) THEN "stderr" ELSE "stdout"

\* header + details, before the cut
ErrorBodyText(r) ==
  Chars(1, HeaderLen(r))
    \o (IF ErrorBodySource(r) = "stderr" THEN r.stderr ELSE r.stdout)

\* build_error_body: the header lines, the details, and the cut by
\* String::truncate, which panics when the new length is not a character
\* boundary
build_error_body(r) ==
  IF ByteLen(ErrorBodyText(r)) <= ERROR_BODY_MAX_BYTES
    THEN Ok([exit_code |-> r.exit_code, signal |-> r.signal,
             source |-> ErrorBodySource(r), truncated |-> FALSE,
             text |-> ErrorBodyText(r)])
  ELSE IF is_char_boundary(ErrorBodyText(r), ERROR_BODY_MAX_BYTES)
    THEN Ok([exit_code |-> r.exit_code, signal |-> r.signal,
             source |-> ErrorBodySource(r), truncated |-> TRUE,
             text |-> SliceTo(ErrorBodyText(r), ERROR_BODY_MAX_BYTES) \o ErrorBodyMarker])
    ELSE Panic

\* send_pakyas_completion: the body of the request, for a failed command
CompletionBody(r) ==
  IF r.exit_code = 0 THEN None ELSE Some(build_error_body(r).value)

\* the modifier of the primary completion URL (send_pakyas_completion)
CompletionModifier(exit_code) ==
  IF exit_code = 0 THEN "" ELSE "/" \o ToString(exit_code)

\* mutant: the completion request is sent without the X-Pakyas-Run header
CompletionRequest_NoRunId(r, run_id, duration_ms) ==
  [kind |-> "completion", modifier |-> CompletionModifier(r.exit_code),
   method |-> IF r.exit_code = 0 THEN "GET" ELSE "POST",
   run_id |-> None, duration_ms |-> Some(duration_ms), body |-> CompletionBody(r),
   outcome |-> "pending"]

\* the request send_pakyas_completion makes: X-Pakyas-Run and
\* X-Pakyas-Duration are set on the GET and on the POST
CompletionRequest(r, run_id, duration_ms) ==
  [kind |-> "completion", modifier |-> CompletionModifier(r.exit_code),
   method |-> IF r.exit_code = 0 THEN "GET" ELSE "POST",
   run_id |-> Some(run_id), duration_ms |-> Some(duration_ms), body |-> CompletionBody(r),
   outcome |-> "pending"]

\* the request the start ping makes: X-Pakyas-Run set, no duration
StartRequest(run_id) ==
  [kind |-> "start", modifier |-> "/start", method |-> "GET",
   run_id |-> Some(run_id), duration_ms |-> None, body |-> None, outcome |-> "pending"]

\* the primary backend answers the request of that kind: 2xx, or an error
\* (non-2xx status, transport error)
Answered(log, kind, ok) ==
  {IF q.kind = kind THEN [q EXCEPT !.outcome = IF ok THEN "ok" ELSE "err"] ELSE q : q \in log}

\* mutant: the start ping's error is swallowed (`let _ =` instead of `?`)
StartPingAborts_Swallowed(ok) == FALSE

\* the `?` on the start ping: an error ends execute
StartPingAborts(ok) == ~ok

\* mutant: any failure of the command is reported as the generic failure code
ExitPrimaryOk_Collapsed(r) == IF r.exit_code = 0 THEN 0 ELSE 1

\* the ExitCode of the arm `Ok(_)` of the match on pakyas_result
ExitPrimaryOk(r) == AsU8(r.exit_code)

\* mutant: strict mode passes the command's code through
ExitStrict_PassThrough(r) == AsU8(r.exit_code)

\* the ExitCode of the arm `Err(e)` (strict mode)
ExitStrict(r) == EXIT_MONITORING_FAILURE

\* mutant: the rescue is lost, the migration arm always reports a monitoring failure
ExitMigration_NoRescue(any_external_success, r) == EXIT_MONITORING_FAILURE

\* mutant: the migration arm rescues without looking at the arbiter's answer
ExitMigration_AlwaysRescue(any_external_success, r) == AsU8(r.exit_code)

\* the ExitCode of the arm `Err(e) if migration_mode`
ExitMigration(any_external_success, r) ==
  IF any_external_success THEN AsU8(r.exit_code) ELSE EXIT_MONITORING_FAILURE

\* what the arm `Err(e) if migration_mode` prints
PrintMigration(any_external_success) ==
  IF any_external_success
    THEN <<"warning: pakyas ping failed, but external monitor succeeded", "arbiter", 0>>
    ELSE <<"error: pakyas ping failed", "arbiter", 0>>

\* mutant: the arbiter is handed the configured timeout as it is
ArbiterTimeout_Uncapped(a) == a.external_timeout_ms

\* the timeout the migration arm hands to the arbiter
ArbiterTimeout(a) == Min(a.external_timeout_ms, MIGRATION_MODE_TIMEOUT_MS)

\* ------------------------------------------------------------- state

NoTasks == [f \in Fanouts |-> [i \in Targets |-> "idle"]]

Fresh ==
  /\ pc = "validate"
  /\ monitors = 0
  /\ migration = FALSE
  /\ result = None
  /\ event = [f \in {"start", "completion"} |-> None]
  /\ runId = None
  /\ primary = {}
  /\ handle = [f \in {"start", "completion"} |-> "undispatched"]
  /\ task = NoTasks
  /\ fanTimeout = [f \in Fanouts \cup Joins |-> None]
  /\ queue = <<>>
  /\ reported = {}
  /\ deadline = "unset"
  /\ early = "none"
  /\ anySuccess = None
  /\ exitCode = None
  /\ printed = {}

NothingGiven ==
  [resolve_ok |-> None, cfg |-> None, start_ok |-> None, spawn_ok |-> None,
   status |-> None, captured |-> None, completion_ok |-> None]

\* the wrapped command of this specification prints nothing
SilentCommand == [NothingGiven EXCEPT !.captured = Some(Silent)]

Init ==
  /\ args \in [command_empty : BOOLEAN, no_external : BOOLEAN,
               migration_mode : BOOLEAN, external_timeout_ms : ExternalTimeouts]
  /\ given = SilentCommand
  /\ Fresh
  /\ run = 1
  /\ firstExit = None

\* the invocation is over: execute has returned Ok(exit_code) or Err, or has
\* panicked. The
\* model ends there: what the spawned tasks do between the return of execute
\* and the end of the process is not followed.
Returned == pc \in {"done", "aborted", "panicked"}

\* ------------------------------------------------- dispatch_external_pings

\* mutant: no fast path for an empty list, a task is spawned regardless
dispatch_external_pings_NoFastPath(f) ==
  /\ handle' = [handle EXCEPT ![f] = "spawned"]
  /\ fanTimeout' = [fanTimeout EXCEPT ![f] = Some(args.external_timeout_ms)]

\* dispatch_external_pings(monitors, event, args.external_timeout_ms): None for
\* an empty list, else the handle of a spawned task
dispatch_external_pings(f) ==
  IF monitors = 0
    THEN /\ handle' = [handle EXCEPT ![f] = "none"]
         /\ UNCHANGED fanTimeout
    ELSE /\ handle' = [handle EXCEPT ![f] = "spawned"]
         /\ fanTimeout' = [fanTimeout EXCEPT ![f] = Some(args.external_timeout_ms)]

\* the spawned task builds the client and spawns one send per target, or
\* warns and returns when the client cannot be built
DispatcherSpawn(f) ==
  /\ ~Returned
  /\ handle[f] = "spawned"
  /\ \E built \in BOOLEAN :
       IF built
         THEN /\ handle' = [handle EXCEPT ![f] = "awaiting"]
              /\ task' = [task EXCEPT ![f] =
                            [i \in Targets |-> IF i <= monitors THEN "inflight" ELSE "idle"]]
              /\ UNCHANGED printed
         ELSE /\ handle' = [handle EXCEPT ![f] = "finished"]
              /\ printed' = printed \cup {<<"warning: failed to create HTTP client", f, 0>>}
              /\ UNCHANGED task
  /\ UNCHANGED <<args, given, pc, monitors, migration, result, event, runId, primary,
                 exitCode, fanTimeout, arb, rep>>

\* mutant: a failing send aborts the sibling sends of its fan-out
TargetResponds_FailFast(f, i) ==
  /\ ~Returned
  /\ f \in {"start", "completion"}
  /\ task[f][i] = "inflight"
  /\ \E ok \in BOOLEAN :
       /\ task' = [task EXCEPT ![f] =
                     [j \in Targets |->
                        IF j = i THEN (IF ok THEN "ok" ELSE "fail")
                        ELSE IF ~ok /\ task[f][j] = "inflight" THEN "idle"
                        ELSE task[f][j]]]
       /\ printed' = IF ok THEN printed
                     ELSE printed \cup {<<"warning: external ping failed", f, i>>}
  /\ UNCHANGED <<args, given, pc, monitors, migration, result, event, runId, primary,
                 exitCode, handle, fanTimeout, arb, rep>>

\* one per-target send of a dispatcher fan-out ends: it panics while building
\* the request, or the request resolves: 2xx, or an error (non-2xx, transport
\* error, client timeout), which only logs a warning
TargetResponds(f, i) ==
  /\ ~Returned
  /\ f \in {"start", "completion"}
  /\ task[f][i] = "inflight"
  /\ IF send_to_target_panics(i, Unwrap(event[f]))
       THEN /\ task' = [task EXCEPT ![f][i] = "panicked"]
            /\ UNCHANGED printed
       ELSE \E ok \in BOOLEAN :
              /\ task' = [task EXCEPT ![f][i] = IF ok THEN "ok" ELSE "fail"]
              /\ printed' = IF ok THEN printed
                            ELSE printed \cup {<<"warning: external ping failed", f, i>>}
  /\ UNCHANGED <<args, given, pc, monitors, migration, result, event, runId, primary,
                 exitCode, handle, fanTimeout, arb, rep>>

\* `for handle in handles { let _ = handle.await; }` has passed every send
DispatcherJoin(f) ==
  /\ ~Returned
  /\ handle[f] = "awaiting"
  /\ \A i \in 1..monitors : task[f][i] \in {"ok", "fail", "panicked"}
  /\ handle' = [handle EXCEPT ![f] = "finished"]
  /\ UNCHANGED <<args, given, orch, task, fanTimeout, arb, rep>>

\* ---------------------------------------------- dispatch_await_any_success

\* mutant: the channel counts as closed as soon as one task has ended
ChannelClosed_FirstSenderDropped == reported /= {}

\* every sender is dropped: the arbiter dropped its own before the loop, each
\* task drops its clone when it ends
ChannelClosed == reported = 1..monitors

\* mutant: the sends still running are aborted when the arbiter returns
ArbiterTargetResponds_AbortedOnReturn(i) ==
  /\ ~Returned
  /\ anySuccess = None
  /\ task["arbiter"][i] = "inflight"
  /\ \E ok \in BOOLEAN :
       /\ task' = [task EXCEPT !["arbiter"][i] = IF ok THEN "ok" ELSE "fail"]
       /\ early' = IF ok /\ deadline = "pending" /\ early = "none"
                    THEN "accepted" ELSE early
  /\ UNCHANGED <<args, given, orch, handle, fanTimeout, queue, reported,
                 deadline, anySuccess, rep>>

\* the arbiter's send task: send_to_target(...).await.is_ok(); a task that
\* panics in send_to_target drops its sender without sending
ArbiterTargetResponds(i) ==
  /\ ~Returned
  /\ task["arbiter"][i] = "inflight"
  /\ IF send_to_target_panics(i, Unwrap(event["completion"]))
       THEN /\ task' = [task EXCEPT !["arbiter"][i] = "panicked"]
            /\ reported' = reported \cup {i}
            /\ UNCHANGED early
       ELSE /\ \E ok \in BOOLEAN :
                 /\ task' = [task EXCEPT !["arbiter"][i] = IF ok THEN "ok" ELSE "fail"]
                 /\ early' = IF ok /\ deadline = "pending" /\ early = "none"
                              THEN "accepted" ELSE early
            /\ UNCHANGED reported
  /\ UNCHANGED <<args, given, orch, handle, fanTimeout, queue,
                 deadline, anySuccess, rep>>

\* mutant: the task does not end after its send and sends its result again
ArbiterTaskSend_Resends(i) ==
  /\ ~Returned
  /\ i \notin reported
  /\ task["arbiter"][i] \in {"ok", "fail"}
  /\ Len(queue) < monitors
  /\ queue' = IF anySuccess = None
                THEN Append(queue, task["arbiter"][i] = "ok")
                ELSE queue
  /\ reported' = IF Len(queue) + 1 < monitors THEN reported ELSE reported \cup {i}
  /\ early' = IF task["arbiter"][i] = "ok" /\ anySuccess = None /\ deadline = "pending"
                THEN "queued" ELSE early
  /\ UNCHANGED <<args, given, orch, ext, deadline, anySuccess, rep>>

\* the arbiter's send task: `let _ = tx.send(success).await`, then the task
\* ends; the value is dropped when the receiver is gone
ArbiterTaskSend(i) ==
  /\ ~Returned
  /\ i \notin reported
  /\ task["arbiter"][i] \in {"ok", "fail"}
  /\ Len(queue) < monitors
  /\ queue' = IF anySuccess = None
                THEN Append(queue, task["arbiter"][i] = "ok")
                ELSE queue
  /\ reported' = reported \cup {i}
  /\ early' = IF task["arbiter"][i] = "ok" /\ anySuccess = None /\ deadline = "pending"
                THEN "queued" ELSE early
  /\ UNCHANGED <<args, given, orch, ext, deadline, anySuccess, rep>>

\* mutant: the migration arm also hands the completion event to the dispatcher
MigrationArm_AlsoDispatches(any_external_success) ==
  /\ anySuccess' = Some(any_external_success)
  /\ printed' = printed \cup {PrintMigration(any_external_success)}
  /\ exitCode' = Some(ExitMigration(any_external_success, Unwrap(result)))
  /\ handle' = [handle EXCEPT !["completion"] = IF monitors = 0 THEN "none" ELSE "spawned"]
  /\ pc' = "join_start"

\* the rest of the arm `Err(e) if migration_mode` once any_external_success is known
MigrationArm(any_external_success) ==
  /\ anySuccess' = Some(any_external_success)
  /\ printed' = printed \cup {PrintMigration(any_external_success)}
  /\ exitCode' = Some(ExitMigration(any_external_success, Unwrap(result)))
  /\ handle' = [handle EXCEPT !["completion"] = "none"]
  /\ pc' = "join_start"

\* tokio::time::sleep_until(deadline) becomes ready
DeadlineElapses ==
  /\ pc = "arbiter"
  /\ deadline = "pending"
  /\ deadline' = "elapsed"
  /\ UNCHANGED <<args, given, orch, ext, queue, reported, early, anySuccess, rep>>

\* mutant: the first result received decides (a wait-for-first, not an any-of)
ArbiterRecv_FirstResultDecides ==
  /\ pc = "arbiter"
  /\ IF queue /= <<>>
       THEN /\ MigrationArm(Head(queue))
            /\ queue' = <<>>
       ELSE /\ ChannelClosed
            /\ MigrationArm(FALSE)
            /\ UNCHANGED queue
  /\ UNCHANGED <<args, given, monitors, migration, result, event, runId, primary,
                 task, fanTimeout, reported, deadline, early, rep>>

\* select! takes the branch `result = rx.recv()`
ArbiterRecv ==
  /\ pc = "arbiter"
  /\ IF queue /= <<>>
       THEN IF Head(queue)
              THEN /\ MigrationArm(TRUE)
                   /\ queue' = <<>>
              ELSE /\ queue' = Tail(queue)
                   /\ UNCHANGED <<pc, anySuccess, printed, exitCode, handle>>
       ELSE /\ ChannelClosed
            /\ MigrationArm(FALSE)
            /\ UNCHANGED queue
  /\ UNCHANGED <<args, given, monitors, migration, result, event, runId, primary,
                 task, fanTimeout, reported, deadline, early, rep>>

\* select! takes the branch `_ = sleep_until(deadline)`
ArbiterDeadline ==
  /\ pc = "arbiter"
  /\ deadline = "elapsed"
  /\ MigrationArm(FALSE)
  /\ queue' = <<>>
  /\ UNCHANGED <<args, given, monitors, migration, result, event, runId, primary,
                 task, fanTimeout, reported, deadline, early, rep>>

\* -------------------------------------------------------------- execute

\* `if args.command.is_empty() { return Err(..) }`
ValidateCommand ==
  /\ pc = "validate"
  /\ pc' = IF args.command_empty THEN "aborted" ELSE "resolve"
  /\ UNCHANGED <<args, given, monitors, migration, result, event, runId, primary,
                 exitCode, printed, ext, arb, rep>>

\* resolve_public_id_verbose(..).await?
ResolvePublicId ==
  /\ pc = "resolve"
  /\ \E ok \in Decide(given.resolve_ok, BOOLEAN) :
       /\ given' = [given EXCEPT !.resolve_ok = Some(ok)]
       /\ pc' = IF ok THEN "load_config" ELSE "aborted"
  /\ UNCHANGED <<args, monitors, migration, result, event, runId, primary,
                 exitCode, printed, ext, arb, rep>>

\* uuid::Uuid::new_v4(): a token no other invocation has; the n-th
\* invocation draws token n
NewRunId == run

\* mutant: the start event is handed to the dispatcher together with the
\* primary start request, before that request is answered
LoadExternalConfig_DispatchesStart ==
  /\ pc = "load_config"
  /\ runId' = Some(NewRunId)
  /\ \E cfg \in IF args.no_external THEN {None}
                ELSE {Some(c) : c \in Decide(given.cfg, Configs)} :
       /\ given' = [given EXCEPT !.cfg = cfg]
       /\ monitors' = load_external_config(args, cfg).monitors
       /\ migration' = load_external_config(args, cfg).migration_mode
       /\ handle' = [handle EXCEPT !["start"] =
                       IF load_external_config(args, cfg).monitors = 0
                         THEN "none" ELSE "spawned"]
  /\ primary' = primary \cup {StartRequest(NewRunId)}
  /\ pc' = "start_ping"
  /\ UNCHANGED <<args, result, event, exitCode, printed, task, fanTimeout, arb, rep>>

\* the run_id is generated, load_external_config is called, then the primary
\* start request is sent
LoadExternalConfig ==
  /\ pc = "load_config"
  /\ runId' = Some(NewRunId)
  /\ \E cfg \in IF args.no_external THEN {None}
                ELSE {Some(c) : c \in Decide(given.cfg, Configs)} :
       /\ given' = [given EXCEPT !.cfg = cfg]
       /\ monitors' = load_external_config(args, cfg).monitors
       /\ migration' = load_external_config(args, cfg).migration_mode
  /\ primary' = primary \cup {StartRequest(NewRunId)}
  /\ pc' = "start_ping"
  /\ UNCHANGED <<args, result, event, exitCode, printed, ext, arb, rep>>

\* send_ping_direct_inner(.., "/start", ..).await? resolves; on Ok the start
\* event is dispatched to the external monitors
SendStartPing ==
  /\ pc = "start_ping"
  /\ \E ok \in Decide(given.start_ok, BOOLEAN) :
       /\ given' = [given EXCEPT !.start_ok = Some(ok)]
       /\ primary' = Answered(primary, "start", ok)
       /\ IF StartPingAborts(ok)
            THEN /\ pc' = "aborted"
                 /\ UNCHANGED <<event, handle, fanTimeout>>
            ELSE /\ event' = [event EXCEPT !["start"] = Some(PingEvent_start)]
                 /\ dispatch_external_pings("start")
                 /\ pc' = "spawn"
  /\ UNCHANGED <<args, monitors, migration, result, runId,
                 exitCode, printed, task, arb, rep>>

\* mutant: the spawn error is swallowed and execute goes on
SpawnAborts_Swallowed(ok) == FALSE

\* the `?` on execute_command: a spawn error ends execute
SpawnAborts(ok) == ~ok

\* mutant: the start handle is awaited before the command is spawned
SpawnCommand_AfterStartFanout ==
  /\ pc = "spawn"
  /\ handle["start"] \in {"none", "finished"}
  /\ \E ok \in Decide(given.spawn_ok, BOOLEAN) :
       /\ given' = [given EXCEPT !.spawn_ok = Some(ok)]
       /\ pc' = IF SpawnAborts(ok) THEN "aborted" ELSE "running"
  /\ UNCHANGED <<args, monitors, migration, result, event, runId, primary,
                 exitCode, printed, ext, arb, rep>>

\* execute_command: Command::new(program)...output() spawns the child, or fails
SpawnCommand ==
  /\ pc = "spawn"
  /\ \E ok \in Decide(given.spawn_ok, BOOLEAN) :
       /\ given' = [given EXCEPT !.spawn_ok = Some(ok)]
       /\ pc' = IF SpawnAborts(ok) THEN "aborted" ELSE "running"
  /\ UNCHANGED <<args, monitors, migration, result, event, runId, primary,
                 exitCode, printed, ext, arb, rep>>

\* the child terminates: the CommandResult and the completion event are
\* built and the primary completion request is sent; execute panics when
\* PingEvent::completion does, or when build_error_body does
CommandTerminates ==
  /\ pc = "running"
  /\ \E status \in Decide(given.status, ExitStatuses),
        captured \in Decide(given.captured, Captures),
        duration_ms \in Durations :
       LET r  == execute_command(status, captured)
           ev == PingEvent_completion(r.exit_code, duration_ms, r.stderr)
       IN /\ given' = [given EXCEPT !.status = Some(status),
                                     !.captured = Some(captured)]
          /\ result' = Some(r)
          /\ IF ev.panicked
               THEN /\ pc' = "panicked"
                    /\ UNCHANGED <<event, primary>>
               ELSE IF r.exit_code /= 0 /\ build_error_body(r).panicked
               THEN /\ event' = [event EXCEPT !["completion"] = Some(ev.value)]
                    /\ pc' = "panicked"
                    /\ UNCHANGED primary
               ELSE /\ event' = [event EXCEPT !["completion"] = Some(ev.value)]
                    /\ primary' = primary
                                    \cup {CompletionRequest(r, Unwrap(runId), duration_ms)}
                    /\ pc' = "completion_ping"
  /\ UNCHANGED <<args, monitors, migration, runId, exitCode, printed, ext, arb, rep>>

\* arm `Ok(_)`: dispatch the completion event, exit with the command's code
PrimaryOkArm ==
  /\ dispatch_external_pings("completion")
  /\ exitCode' = Some(ExitPrimaryOk(Unwrap(result)))
  /\ pc' = "join_start"
  /\ UNCHANGED <<printed, task, arb>>

\* mutant: strict mode hands the completion error to the caller (`?`)
StrictArm_RawError ==
  /\ dispatch_external_pings("completion")
  /\ printed' = printed \cup {<<"error: pakyas ping failed", "completion", 0>>}
  /\ pc' = "aborted"
  /\ UNCHANGED <<exitCode, task, arb>>

\* arm `Err(e)`: strict mode, dispatch the completion event, exit 3
StrictArm ==
  /\ dispatch_external_pings("completion")
  /\ printed' = printed \cup {<<"error: pakyas ping failed", "completion", 0>>}
  /\ exitCode' = Some(ExitStrict(Unwrap(result)))
  /\ pc' = "join_start"
  /\ UNCHANGED <<task, arb>>

\* mutant: the empty target list is not short-circuited
ArbiterSkipped_Never == FALSE

\* `if !monitors.is_empty() { dispatch_await_any_success(..) } else { false }`,
\* and the arbiter's own `if monitors.is_empty() { return false; }`
ArbiterSkipped == monitors = 0

\* arm `Err(e) if migration_mode`: dispatch_await_any_success is entered for a
\* non-empty list; with the client built it spawns one send per target,
\* drops its sender and starts the drain
MigrationArmEnter ==
  IF ArbiterSkipped
    THEN /\ MigrationArm(FALSE)
         /\ UNCHANGED <<task, fanTimeout, queue, reported, deadline, early>>
    ELSE \E built \in BOOLEAN :
           IF built
             THEN /\ task' = [task EXCEPT !["arbiter"] =
                                [i \in Targets |-> IF i <= monitors THEN "inflight" ELSE "idle"]]
                  /\ fanTimeout' = [fanTimeout EXCEPT !["arbiter"] = Some(ArbiterTimeout(args))]
                  /\ deadline' = "pending"
                  /\ pc' = "arbiter"
                  /\ UNCHANGED <<queue, reported, early, anySuccess, printed,
                                 exitCode, handle>>
             ELSE /\ MigrationArm(FALSE)
                  /\ fanTimeout' = [fanTimeout EXCEPT !["arbiter"] = Some(ArbiterTimeout(args))]
                  /\ UNCHANGED <<task, queue, reported, deadline, early>>

\* send_pakyas_completion(..).await resolves, and the match on pakyas_result
SendPakyasCompletion ==
  /\ pc = "completion_ping"
  /\ \E ok \in Decide(given.completion_ok, BOOLEAN) :
       /\ given' = [given EXCEPT !.completion_ok = Some(ok)]
       /\ primary' = Answered(primary, "completion", ok)
       /\ IF ok THEN PrimaryOkArm
          ELSE IF migration THEN MigrationArmEnter
          ELSE StrictArm
  /\ UNCHANGED <<args, monitors, migration, result, event, runId, rep>>

\* mutant: the wait on a handle has no timeout
JoinTimesOut_Never(f) == FALSE

\* the wait on a handle ends by timeout while its task is still running
JoinTimesOut(f) == handle[f] \in {"spawned", "awaiting"}

\* await_external_handles(.., args.external_timeout_ms): the bound of a wait
JoinTimeout(a) == a.external_timeout_ms

\* `if let Some(handle) = ..handle { timeout(timeout, handle).await }`: the
\* wait on the handle of fan-out f, when there is one, is made with that bound
JoinWait(j, f) ==
  fanTimeout' = IF handle[f] = "none" THEN fanTimeout
                ELSE [fanTimeout EXCEPT ![j] = Some(JoinTimeout(args))]

\* mutant: a timed-out wait on start_handle aborts the fan-out's task and the
\* sends it spawned
AwaitStartHandle_CancelsOnTimeout ==
  /\ pc = "join_start"
  /\ \/ /\ handle["start"] \in {"none", "finished"}
        /\ UNCHANGED <<printed, handle, task>>
     \/ /\ JoinTimesOut("start")
        /\ printed' = printed \cup {<<"warning: external start ping timed out", "start", 0>>}
        /\ handle' = [handle EXCEPT !["start"] = "cancelled"]
        /\ task' = [task EXCEPT !["start"] =
                      [i \in Targets |-> IF task["start"][i] = "inflight"
                                            THEN "cancelled" ELSE task["start"][i]]]
  /\ JoinWait("join_start", "start")
  /\ pc' = "join_completion"
  /\ UNCHANGED <<args, given, monitors, migration, result, event, runId, primary,
                 exitCode, arb, rep>>

\* mutant: a timed-out wait on start_handle ends the invocation with an error
AwaitStartHandle_TimeoutAborts ==
  /\ pc = "join_start"
  /\ \/ /\ handle["start"] \in {"none", "finished"}
        /\ pc' = "join_completion"
        /\ UNCHANGED printed
     \/ /\ JoinTimesOut("start")
        /\ pc' = "aborted"
        /\ printed' = printed \cup {<<"warning: external start ping timed out", "start", 0>>}
  /\ JoinWait("join_start", "start")
  /\ UNCHANGED <<args, given, monitors, migration, result, event, runId, primary,
                 exitCode, handle, task, arb, rep>>

\* await_external_handles: the bounded wait on start_handle
AwaitStartHandle ==
  /\ pc = "join_start"
  /\ \/ /\ handle["start"] \in {"none", "finished"}
        /\ UNCHANGED printed
     \/ /\ JoinTimesOut("start")
        /\ printed' = printed \cup {<<"warning: external start ping timed out", "start", 0>>}
  /\ JoinWait("join_start", "start")
  /\ pc' = "join_completion"
  /\ UNCHANGED <<args, given, monitors, migration, result, event, runId, primary,
                 exitCode, handle, task, arb, rep>>

\* mutant: a timed-out wait on completion_handle turns the exit code into 3
AwaitCompletionHandle_TimeoutFails ==
  /\ pc = "join_completion"
  /\ \/ /\ handle["completion"] \in {"none", "finished"}
        /\ UNCHANGED <<printed, exitCode>>
     \/ /\ JoinTimesOut("completion")
        /\ printed' = printed \cup
                        {<<"warning: external completion ping timed out", "completion", 0>>}
        /\ exitCode' = Some(EXIT_MONITORING_FAILURE)
  /\ JoinWait("join_completion", "completion")
  /\ pc' = "done"
  /\ UNCHANGED <<args, given, monitors, migration, result, event, runId, primary,
                 handle, task, arb, rep>>

\* mutant: execute also waits for the sends the arbiter spawned
AwaitCompletionHandle_JoinsArbiter ==
  /\ pc = "join_completion"
  /\ \A i \in Targets : task["arbiter"][i] /= "inflight"
  /\ \/ /\ handle["completion"] \in {"none", "finished"}
        /\ UNCHANGED printed
     \/ /\ JoinTimesOut("completion")
        /\ printed' = printed \cup
                        {<<"warning: external completion ping timed out", "completion", 0>>}
  /\ JoinWait("join_completion", "completion")
  /\ pc' = "done"
  /\ UNCHANGED <<args, given, monitors, migration, result, event, runId, primary,
                 exitCode, handle, task, arb, rep>>

\* await_external_handles: the bounded wait on completion_handle, then Ok(exit_code)
AwaitCompletionHandle ==
  /\ pc = "join_completion"
  /\ \/ /\ handle["completion"] \in {"none", "finished"}
        /\ UNCHANGED printed
     \/ /\ JoinTimesOut("completion")
        /\ printed' = printed \cup
                        {<<"warning: external completion ping timed out", "completion", 0>>}
  /\ JoinWait("join_completion", "completion")
  /\ pc' = "done"
  /\ UNCHANGED <<args, given, monitors, migration, result, event, runId, primary,
                 exitCode, handle, task, arb, rep>>

\* the same invocation is made again: same arguments and the same answers of
\* the resolver, the configuration, the primary backend and the command; the
\* external targets are free to behave differently
SecondInvocation ==
  /\ pc = "done"
  /\ run = 1
  /\ run' = 2
  /\ firstExit' = exitCode
  /\ pc' = "validate"
  /\ monitors' = 0
  /\ migration' = FALSE
  /\ result' = None
  /\ event' = [f \in {"start", "completion"} |-> None]
  /\ runId' = None
  /\ primary' = {}
  /\ handle' = [f \in {"start", "completion"} |-> "undispatched"]
  /\ task' = NoTasks
  /\ fanTimeout' = [f \in Fanouts \cup Joins |-> None]
  /\ queue' = <<>>
  /\ reported' = {}
  /\ deadline' = "unset"
  /\ early' = "none"
  /\ anySuccess' = None
  /\ exitCode' = None
  /\ printed' = {}
  /\ UNCHANGED <<args, given>>

Next ==
  \/ ValidateCommand
  \/ ResolvePublicId
  \/ LoadExternalConfig
  \/ SendStartPing
  \/ SpawnCommand
  \/ CommandTerminates
  \/ SendPakyasCompletion
  \/ DeadlineElapses
  \/ ArbiterRecv
  \/ ArbiterDeadline
  \/ AwaitStartHandle
  \/ AwaitCompletionHandle
  \/ \E f \in {"start", "completion"} : DispatcherSpawn(f)
  \/ \E f \in {"start", "completion"} : DispatcherJoin(f)
  \/ \E f \in {"start", "completion"}, i \in Targets : TargetResponds(f, i)
  \/ \E i \in Targets : ArbiterTargetResponds(i)
  \/ \E i \in Targets : ArbiterTaskSend(i)

Spec == Init /\ [][Next]_vars

\* What is bound to happen: every step of execute itself (the resolver and
\* the primary backend answer or their client times out, the wrapped command
\* terminates, a timer that was armed fires, a bounded wait ends) and the
\* arbiter's loop. Nothing is assumed of the external targets and of the
\* spawned tasks: a request to a target may hang for ever.
Progress ==
  /\ WF_vars(ValidateCommand)
  /\ WF_vars(ResolvePublicId)
  /\ WF_vars(LoadExternalConfig)
  /\ WF_vars(SendStartPing)
  /\ WF_vars(SpawnCommand)
  /\ WF_vars(CommandTerminates)
  /\ WF_vars(SendPakyasCompletion)
  /\ WF_vars(DeadlineElapses)
  /\ WF_vars(ArbiterRecv)
  /\ WF_vars(ArbiterDeadline)
  /\ WF_vars(AwaitStartHandle)
  /\ WF_vars(AwaitCompletionHandle)

\* An invocation with one external target and a failing command, for every
\* argument and every answer of the resolver, the primary backend and the spawn
InitProgress ==
  /\ args \in [command_empty : BOOLEAN, no_external : BOOLEAN,
               migration_mode : BOOLEAN, external_timeout_ms : ExternalTimeouts]
  /\ given = [SilentCommand EXCEPT
                !.cfg = Some([ok |-> TRUE, migration_mode |-> FALSE, targets |-> 1]),
                !.status = Some([code |-> Some(1), signal |-> None])]
  /\ Fresh
  /\ run = 1
  /\ firstExit = None

SpecProgress == InitProgress /\ [][Next]_vars /\ Progress

\* two invocations that agree on everything but the external targets' behaviour
NextPair == Next \/ SecondInvocation

SpecPair == Init /\ [][NextPair]_vars

\* An invocation without external targets, for every exit status of the
\* wrapped command and every captured text: the resolver, the configuration,
\* the start ping and the spawn have answered well
InitCompletion ==
  /\ args \in [command_empty : {FALSE}, no_external : {FALSE},
               migration_mode : BOOLEAN, external_timeout_ms : ExternalTimeouts]
  /\ given \in {[NothingGiven EXCEPT
                   !.resolve_ok = Some(TRUE),
                   !.cfg = Some([ok |-> TRUE, migration_mode |-> FALSE, targets |-> 0]),
                   !.start_ok = Some(TRUE),
                   !.spawn_ok = Some(TRUE),
                   !.status = Some(status),
                   !.captured = Some(captured)] :
                 status \in AllExitStatuses, captured \in Captures}
  /\ Fresh
  /\ run = 1
  /\ firstExit = None

\* the steps of execute itself
NextCompletion ==
  \/ ValidateCommand
  \/ ResolvePublicId
  \/ LoadExternalConfig
  \/ SendStartPing
  \/ SpawnCommand
  \/ CommandTerminates
  \/ SendPakyasCompletion
  \/ AwaitStartHandle
  \/ AwaitCompletionHandle

SpecCompletion == InitCompletion /\ [][NextCompletion]_vars

\* The end-to-end scenario of a migration rescue: migration mode on, one
\* healthchecks target configured, the start ping answered, the command
\* exiting with any nonzero code of [1,255], and the primary completion ping
\* failing
InitScenario ==
  /\ args \in [command_empty : {FALSE}, no_external : {FALSE},
               migration_mode : {TRUE}, external_timeout_ms : ExternalTimeouts]
  /\ given \in {[NothingGiven EXCEPT
                   !.resolve_ok = Some(TRUE),
                   !.cfg = Some([ok |-> TRUE, migration_mode |-> FALSE, targets |-> 1]),
                   !.start_ok = Some(TRUE),
                   !.spawn_ok = Some(TRUE),
                   !.status = Some([code |-> Some(c), signal |-> None]),
                   !.captured = Some(captured),
                   !.completion_ok = Some(FALSE)] :
                 c \in 1..(U8_MODULUS - 1),
                 captured \in {Silent, [stdout |-> <<>>, stderr |-> Chars(1, 1)]}}
  /\ Fresh
  /\ run = 1
  /\ firstExit = None

SpecScenario == InitScenario /\ [][Next]_vars

\* the event a fan-out sends: the arbiter sends the completion event
EventOf(f) == IF f = "start" THEN "start" ELSE "completion"

\* the requests made so far to the healthchecks target
HealthchecksRequests ==
  {[fanout |-> f, request |-> send_healthchecks(Unwrap(event[EventOf(f)]))] :
     f \in {g \in Fanouts : \E i \in 1..monitors :
                              /\ TargetKind(i) = "healthchecks"
                              /\ task[g][i] /= "idle"}}

\* a command whose stderr makes send_cronitor cut inside a character: byte
\* 2000 of the event's output lies inside a two-byte character
CronitorSplit ==
  [stdout |-> <<>>, stderr |-> Chars(1, CRONITOR_MESSAGE_MAX - 1) \o Chars(2, 1)]

\* The fan-outs to a full target list (healthchecks, cronitor, ...): the start
\* ping answered, the command exiting 0 or 1, silent or with the stderr on
\* which the cronitor send aborts
InitFanout ==
  /\ args \in [command_empty : {FALSE}, no_external : {FALSE},
               migration_mode : BOOLEAN, external_timeout_ms : ExternalTimeouts]
  /\ given \in {[NothingGiven EXCEPT
                   !.resolve_ok = Some(TRUE),
                   !.cfg = Some([ok |-> TRUE, migration_mode |-> FALSE,
                                 targets |-> MaxTargets]),
                   !.start_ok = Some(TRUE),
                   !.spawn_ok = Some(TRUE),
                   !.status = Some([code |-> Some(c), signal |-> None]),
                   !.captured = Some(captured)] :
                 c \in 0..1, captured \in {Silent, CronitorSplit}}
  /\ Fresh
  /\ run = 1
  /\ firstExit = None

SpecFanout == InitFanout /\ [][Next]_vars

\* the values of --external-timeout-ms around the cap of migration mode
TimeoutValues ==
  {0, DEFAULT_EXTERNAL_TIMEOUT_MS}
    \cup ((MIGRATION_MODE_TIMEOUT_MS - Slack)..(MIGRATION_MODE_TIMEOUT_MS + Slack))

\* An invocation with one target and a failing command, for every configured
\* external timeout
InitTimeouts ==
  /\ args \in [command_empty : {FALSE}, no_external : {FALSE},
               migration_mode : BOOLEAN, external_timeout_ms : TimeoutValues]
  /\ given = [NothingGiven EXCEPT
                !.resolve_ok = Some(TRUE),
                !.cfg = Some([ok |-> TRUE, migration_mode |-> FALSE, targets |-> 1]),
                !.start_ok = Some(TRUE),
                !.spawn_ok = Some(TRUE),
                !.status = Some([code |-> Some(1), signal |-> None]),
                !.captured = Some(Silent)]
  /\ Fresh
  /\ run = 1
  /\ firstExit = None

SpecTimeouts == InitTimeouts /\ [][Next]_vars

\* the exit statuses the error body is built for: a nonzero code, a signal
ErrorBodyStatuses ==
  {[code |-> Some(1), signal |-> None], [code |-> None, signal |-> Some(SampleSignal)]}

\* the longest header among those statuses
MaxHeaderLen == HeaderLen([exit_code |-> 1, signal |-> Some(SampleSignal)])

\* captured texts that bring the body to around ERROR_BODY_MAX_BYTES: ASCII
\* text ending with one character of each width
LongTexts ==
  {Chars(1, n) \o Chars(w, 1) :
     n \in (ERROR_BODY_MAX_BYTES - MaxHeaderLen - MaxCharWidth - Slack)
             ..(ERROR_BODY_MAX_BYTES - MaxHeaderLen + Slack),
     w \in 1..MaxCharWidth}

\* what the command prints: a text on stderr, or a text on stdout with stderr
\* empty, blank, or short
ErrorBodyCaptures ==
  {[stdout |-> <<>>, stderr |-> t] : t \in LongTexts \cup {Chars(1, 1)}}
    \cup {[stdout |-> t, stderr |-> e] :
            t \in LongTexts \cup {<<>>, Chars(1, 1)}, e \in {<<>>, Blanks(1)}}
    \cup {[stdout |-> t, stderr |-> Chars(1, 1)] : t \in LongTexts}

\* An invocation of a failing command with one external target, for every
\* such status and captured output
InitErrorBody ==
  /\ args \in [command_empty : {FALSE}, no_external : {FALSE},
               migration_mode : BOOLEAN, external_timeout_ms : ExternalTimeouts]
  /\ given \in {[NothingGiven EXCEPT
                   !.resolve_ok = Some(TRUE),
                   !.cfg = Some([ok |-> TRUE, migration_mode |-> FALSE, targets |-> 1]),
                   !.start_ok = Some(TRUE),
                   !.spawn_ok = Some(TRUE),
                   !.status = Some(status),
                   !.captured = Some(captured)] :
                 status \in ErrorBodyStatuses, captured \in ErrorBodyCaptures}
  /\ Fresh
  /\ run = 1
  /\ firstExit = None

SpecErrorBody == InitErrorBody /\ [][Next]_vars

\* the error execute ended with, by the step that failed
FatalError ==
  IF args.command_empty THEN "no command specified"
  ELSE IF given.resolve_ok = Some(FALSE) THEN "check not found"
  ELSE IF given.start_ok = Some(FALSE) THEN "start ping failed"
  ELSE "failed to execute"

\* mutant: an identifier that is not found exits with the code that is also
\* the monitoring-failure code
ExitOnError_ByMessage(e) ==
  IF e = "check not found" THEN EXIT_MONITORING_FAILURE ELSE EXIT_FAILURE

\* main: `Err(e) => { eprintln!("Error: {}", e); ExitCode::FAILURE }`
ExitOnError(e) == EXIT_FAILURE

\* main: the exit code of the process, once execute has returned
ProcessExitCode ==
  IF pc = "done" THEN exitCode
  ELSE IF pc = "aborted" THEN Some(ExitOnError(FatalError))
  ELSE None

\* ----------------------------------------------------------- properties

\* the wrapped command's reported exit code
CommandCode == Unwrap(result).exit_code

\* the code is one a process can exit with
InU8(c) == c \in 0..(U8_MODULUS - 1)

\* the primary request of that kind has been answered that way
PrimaryAnswered(kind, outcome) ==
  \E q \in primary : q.kind = kind /\ q.outcome = outcome

RescueWarning == <<"warning: pakyas ping failed, but external monitor succeeded", "arbiter", 0>>

\* C1: when the primary completion ping succeeded, execute returns the wrapped
\* command's own exit code, for every code in [0,255], whatever the external
\* targets did and whether or not migration mode is on.
C1_PrimaryOkReturnsCommandCode ==
  (pc = "done" /\ PrimaryAnswered("completion", "ok") /\ InU8(CommandCode))
    => exitCode = Some(CommandCode)

\* C1 witness: primary succeeded with migration mode on, the command exited
\* 255, one external send failed and another still hangs at the return.
C1_Witness ==
  /\ pc = "done" /\ PrimaryAnswered("completion", "ok") /\ migration
  /\ CommandCode = U8_MODULUS - 1 /\ exitCode = Some(U8_MODULUS - 1)
  /\ task["completion"][1] = "fail" /\ task["completion"][2] = "inflight"

\* C2: when the primary completion ping failed and migration mode is off,
\* execute returns 3 whatever the command's code and whatever the external
\* targets answer, and the completion event was still handed to the
\* dispatcher (a fan-out task exists whenever there is a target; the arbiter
\* is not used).
C2_StrictFailureReturns3 ==
  (pc = "done" /\ PrimaryAnswered("completion", "err") /\ ~migration)
    => /\ exitCode = Some(EXIT_MONITORING_FAILURE)
       /\ (monitors = 0) => (handle["completion"] = "none")
       /\ (monitors > 0) => (handle["completion"] \in {"spawned", "awaiting", "finished"})
       /\ anySuccess = None
       /\ \A i \in Targets : task["arbiter"][i] = "idle"

\* C2 witness: strict mode, the command exited 0, every external target
\* accepted the completion event, and the exit code is 3.
C2_Witness ==
  /\ pc = "done" /\ PrimaryAnswered("completion", "err") /\ ~migration
  /\ monitors = MaxTargets /\ CommandCode = 0
  /\ \A i \in 1..monitors : task["completion"][i] = "ok"
  /\ exitCode = Some(EXIT_MONITORING_FAILURE)

C4_NoRescueReturns3 ==
  (pc = "done" /\ PrimaryAnswered("completion", "err") /\ migration
     /\ anySuccess = Some(FALSE))
    => exitCode = Some(EXIT_MONITORING_FAILURE)

\* C4 witness: every target failed before the deadline, the command exited 0,
\* and the exit code is 3.
C4_Witness ==
  /\ pc = "done" /\ PrimaryAnswered("completion", "err") /\ migration
  /\ monitors = MaxTargets /\ deadline = "pending"
  /\ \A i \in 1..monitors : task["arbiter"][i] = "fail"
  /\ anySuccess = Some(FALSE) /\ CommandCode = 0
  /\ exitCode = Some(EXIT_MONITORING_FAILURE)

\* C5: for every wrapped exit code in [0,255], execute returns 3 only if the
\* primary completion ping failed and no migration rescue occurred.
C5_Exit3OnlyOnMonitoringFailure ==
  (pc = "done" /\ InU8(CommandCode) /\ exitCode = Some(EXIT_MONITORING_FAILURE))
    => PrimaryAnswered("completion", "err") /\ anySuccess /= Some(TRUE)

\* C6: the wrapped command is spawned, runs and has run only in states where
\* the primary start ping has already returned success.
C6_StartResolvedBeforeCommand ==
  (pc \in {"spawn", "running"} \/ result /= None)
    => PrimaryAnswered("start", "ok")

\* C6 witness: the command is executing, after a successful start ping.
C6_Witness == pc = "running" /\ PrimaryAnswered("start", "ok")

\* C7: if the primary start ping errors, execute ends with that error: the
\* command is never executed, no external target is sent a start or a
\* completion event, no primary completion ping is sent and the arbiter is
\* not used.
C7_StartErrorAborts ==
  PrimaryAnswered("start", "err")
    => /\ pc = "aborted"
       /\ result = None /\ event["completion"] = None /\ exitCode = None
       /\ \A f \in {"start", "completion"} : handle[f] = "undispatched"
       /\ \A f \in Fanouts, i \in Targets : task[f][i] = "idle"
       /\ \A q \in primary : q.kind /= "completion"
       /\ anySuccess = None /\ deadline = "unset"

\* C7 witness: the start ping errored in an invocation with migration mode on
\* and external targets configured.
C7_Witness ==
  PrimaryAnswered("start", "err") /\ pc = "aborted" /\ migration /\ monitors = MaxTargets

\* C8: in Resolved (the two bounded joins) the exit code chosen by the match on
\* pakyas_result is not changed, whether a join completes or times out, and
\* it is the value execute returns.
C8_JoinsKeepExitCode ==
  [][(pc \in {"join_start", "join_completion"})
       => (exitCode /= None /\ exitCode' = exitCode)]_vars

\* C8 witness: both joins timed out (both warnings printed) and execute
\* returned the command's code 255.
C8_Witness ==
  /\ pc = "done" /\ exitCode = Some(U8_MODULUS - 1)
  /\ <<"warning: external start ping timed out", "start", 0>> \in printed
  /\ <<"warning: external completion ping timed out", "completion", 0>> \in printed

C11_FalseOnlyByClosedQueueOrDeadline ==
  (anySuccess = Some(FALSE) /\ monitors > 0)
    => \/ deadline = "elapsed"
       \/ /\ reported = 1..monitors
          /\ \A i \in 1..monitors : task["arbiter"][i] = "fail"

\* the arbiter returned before any send was spawned: the HTTP client could
\* not be built
ClientBuildFailed ==
  /\ deadline = "unset"
  /\ fanTimeout["arbiter"] /= None
  /\ \A i \in Targets : task["arbiter"][i] = "idle"

\* C11: with a non-empty target list the arbiter has returned false only when
\* every target task finished without a success (channel closed), or the
\* deadline elapsed, or the HTTP client could not be built; and while the
\* arbiter drains with the deadline not elapsed, a false it has received has
\* not ended the drain as long as another target is unresolved.
C11_FalseOnlyByClosedQueueDeadlineOrClient ==
  (anySuccess = Some(FALSE) /\ monitors > 0)
    => \/ deadline = "elapsed"
       \/ /\ reported = 1..monitors
          /\ \A i \in 1..monitors : task["arbiter"][i] = "fail"
       \/ ClientBuildFailed

\* C11 witness: the arbiter received target 1's false, went on draining
\* while target 2 was unresolved, and returned false when the deadline elapsed.
C11_Witness ==
  /\ anySuccess = Some(FALSE) /\ deadline = "elapsed"
  /\ monitors = MaxTargets
  /\ task["arbiter"][1] = "fail" /\ reported = {1}
  /\ task["arbiter"][2] = "inflight"

C13_EmptyDispatchDoesNothing ==
  (monitors = 0 /\ pc \notin {"validate", "resolve", "load_config"})
    => \A f \in {"start", "completion"} :
         /\ handle[f] \in {"undispatched", "none"}
         /\ fanTimeout[f] = None
         /\ \A i \in Targets : task[f][i] = "idle"
         /\ <<"warning: failed to create HTTP client", f, 0>> \notin printed
         /\ <<"warning: external start ping timed out", f, 0>> \notin printed
         /\ <<"warning: external completion ping timed out", f, 0>> \notin printed

\* C13 witness: an invocation without targets has dispatched both events and
\* passed both joins.
C13_Witness ==
  /\ pc = "done" /\ monitors = 0 /\ PrimaryAnswered("completion", "ok")
  /\ handle["start"] = "none" /\ handle["completion"] = "none"

\* C14: with an empty target list the arbiter's answer is false at once: no
\* client is built, no send is spawned, no deadline is armed, and migration
\* mode does not rescue the exit code.
C14_EmptyArbiterNeverRescues ==
  (migration /\ monitors = 0 /\ PrimaryAnswered("completion", "err"))
    => /\ anySuccess = Some(FALSE)
       /\ exitCode = Some(EXIT_MONITORING_FAILURE)
       /\ pc /= "arbiter"
       /\ deadline = "unset"
       /\ fanTimeout["arbiter"] = None
       /\ queue = <<>> /\ reported = {}
       /\ \A i \in Targets : task["arbiter"][i] = "idle"
       /\ RescueWarning \notin printed

\* C14 witness: migration mode on, no targets, the primary completion ping
\* failed for a command that exited 0, and the invocation returned 3.
C14_Witness ==
  /\ pc = "done" /\ migration /\ monitors = 0
  /\ PrimaryAnswered("completion", "err") /\ CommandCode = 0
  /\ anySuccess = Some(FALSE) /\ exitCode = Some(EXIT_MONITORING_FAILURE)

\* the completion PingEvent, once built
CompletionEvent == Unwrap(event["completion"])

\* C15: the run id is generated once per invocation; every request sent to
\* the primary backend - the start GET, the success GET and the fail POST -
\* carries that same run id; no PingEvent handed to the external targets has
\* a run id.
C15_OneRunIdPrimaryOnly ==
  /\ (primary /= {}) => (runId = Some(run))
  /\ \A q \in primary : q.run_id = runId /\ q.run_id /= None
  /\ \A f \in {"start", "completion"} :
       (event[f] /= None)
         => DOMAIN Unwrap(event[f]) = {"event_type", "exit_code", "duration_ms", "output"}

\* C15 witness: the start GET and the fail POST of one invocation were both
\* answered, they carry the same run id, and an external target took the
\* completion event.
C15_Witness ==
  /\ pc = "done" /\ PrimaryAnswered("start", "ok")
  /\ \E q \in primary : /\ q.kind = "completion" /\ q.method = "POST"
                        /\ q.outcome = "ok" /\ q.run_id = runId
  /\ \E q \in primary : q.kind = "start" /\ q.run_id = runId
  /\ task["completion"][1] = "ok"

\* C16: for every wrapped exit code in [0,255], the completion PingEvent's
\* exit_code is the command's reported exit code, and the modifier of the
\* primary completion URL is "/{exit_code}" for a nonzero code and empty for
\* zero.
C16_CompletionCarriesExitCode ==
  (event["completion"] /= None /\ InU8(CommandCode))
    => /\ CompletionEvent.exit_code = Some(CommandCode)
       /\ \A q \in primary :
            (q.kind = "completion")
              => /\ (CommandCode = 0) => (q.modifier = "")
                 /\ (CommandCode /= 0) => (q.modifier = "/" \o ToString(CommandCode))

\* C16 witness: the command exited 255; the event carries 255 and the primary
\* completion URL ends in /255.
C16_Witness ==
  /\ pc = "done" /\ CommandCode = U8_MODULUS - 1
  /\ CompletionEvent.exit_code = Some(U8_MODULUS - 1)
  /\ \E q \in primary : q.kind = "completion" /\ q.modifier = "/255"

\* C17: every PingEvent built satisfies: a Start event has no exit_code, no
\* duration_ms and no output; output is present only on a Fail event and only
\* when the captured text is non-empty; the completion event is Success
\* exactly when the exit code is 0 and Fail otherwise.
C17_PingEventInvariants ==
  /\ (event["start"] /= None) => (Unwrap(event["start"]).event_type = "Start")
  /\ \A f \in {"start", "completion"} :
       (event[f] /= None)
         => /\ (Unwrap(event[f]).event_type = "Start")
                 => /\ Unwrap(event[f]).exit_code = None
                    /\ Unwrap(event[f]).duration_ms = None
                    /\ Unwrap(event[f]).output = None
            /\ (Unwrap(event[f]).output /= None)
                 => /\ Unwrap(event[f]).event_type = "Fail"
                    /\ Unwrap(result).stderr /= <<>>
  /\ (event["completion"] /= None)
       => /\ (CompletionEvent.event_type = "Success") <=> (CommandCode = 0)
          /\ (CompletionEvent.event_type = "Fail") <=> (CommandCode /= 0)

\* C17 witness: a start event and a Fail completion event with output were
\* built in one invocation.
C17_Witness ==
  /\ pc = "done" /\ event["start"] /= None /\ event["completion"] /= None
  /\ CompletionEvent.event_type = "Fail" /\ CompletionEvent.output /= None
  /\ CompletionEvent.duration_ms = Some(SampleDurationMs)

\* C18 as claimed: for every captured stderr text, multi-byte characters
\* included, build_output returns a value: absent for empty text, the text
\* itself up to 4096 bytes, else the marker followed by exactly the last 4096
\* bytes, never more than 4096 + 20 bytes.
C18_BuildOutputReturnsBoundedTail ==
  (result /= None /\ CommandCode /= 0)
    => /\ pc /= "panicked"
       /\ (Unwrap(result).stderr = <<>>) => (CompletionEvent.output = None)
       /\ (ByteLen(Unwrap(result).stderr) \in 1..OUTPUT_MAX_BYTES)
            => (CompletionEvent.output = Some(Unwrap(result).stderr))
       /\ (ByteLen(Unwrap(result).stderr) > OUTPUT_MAX_BYTES)
            => /\ CompletionEvent.output /= None
               /\ SubSeq(Unwrap(CompletionEvent.output), 1, Len(TruncationMarker))
                    = TruncationMarker
               /\ ByteLen(Unwrap(CompletionEvent.output))
                    = ByteLen(TruncationMarker) + OUTPUT_MAX_BYTES
               /\ ByteLen(Unwrap(CompletionEvent.output)) <= OUTPUT_MAX_BYTES + 20

\* C19 as claimed: for a failing command the completion event's output is
\* absent exactly when stdout and stderr are both empty; otherwise it is
\* present and at most 4096 + marker bytes, and derived from stdout when
\* stderr is empty and stdout is not.
C19_OutputFallsBackToStdout ==
  (event["completion"] /= None /\ CommandCode /= 0)
    => /\ (CompletionEvent.output = None)
            <=> (Unwrap(result).stdout = <<>> /\ Unwrap(result).stderr = <<>>)
       /\ (CompletionEvent.output /= None)
            => (ByteLen(Unwrap(CompletionEvent.output))
                  <= OUTPUT_MAX_BYTES + ByteLen(TruncationMarker))
       /\ (Unwrap(result).stderr = <<>> /\ Unwrap(result).stdout /= <<>>)
            => (CompletionEvent.output = Some(Unwrap(result).stdout))

\* the end-to-end scenario has run to its end with a target that does not
\* refuse: nonzero code in [1,255], primary completion ping failed, migration
\* mode on, a healthchecks target configured
ScenarioDone ==
  /\ pc = "done" /\ migration /\ PrimaryAnswered("completion", "err")
  /\ CommandCode \in 1..(U8_MODULUS - 1)
  /\ monitors = 1 /\ TargetKind(1) = "healthchecks"
  /\ task["arbiter"][1] /= "fail"

\* a request was made by the arbiter to {endpoint}/U/fail
FailRequestMade ==
  \E q \in HealthchecksRequests :
    q.fanout = "arbiter" /\ q.request.url = "{endpoint}/{uuid}/fail"

\* C20 as claimed: in the scenario, with the target having accepted the
\* request, a request was made to {endpoint}/U/fail, the arbiter returned true
\* and the final exit code is the command's code c.
C20_ScenarioAlwaysRescues ==
  (ScenarioDone /\ task["arbiter"][1] = "ok")
    => /\ FailRequestMade
       /\ anySuccess = Some(TRUE)
       /\ exitCode = Some(CommandCode)

\* C20: in the scenario, when the HTTP client was built and the deadline had
\* not elapsed by the time the arbiter returned, a request was made to
\* {endpoint}/U/fail, the arbiter returned true and the final exit code is c;
\* the arbiter returned false, and the exit code is 3, only when the
\* deadline elapsed first or the client could not be built; every request the
\* arbiter made went to {endpoint}/U/fail.
C20_ScenarioRescuesBeforeDeadline ==
  ScenarioDone
    => /\ (deadline = "pending")
            => /\ FailRequestMade
               /\ anySuccess = Some(TRUE)
               /\ exitCode = Some(CommandCode)
               /\ RescueWarning \in printed
       /\ (anySuccess = Some(TRUE)) => (FailRequestMade /\ exitCode = Some(CommandCode))
       /\ (anySuccess = Some(FALSE))
            => /\ exitCode = Some(EXIT_MONITORING_FAILURE)
               /\ (deadline = "elapsed" \/ ClientBuildFailed)
       /\ \A q \in HealthchecksRequests :
            (q.fanout = "arbiter") => (q.request.url = "{endpoint}/{uuid}/fail")

\* C20 witness: the command exited 7, the healthchecks target accepted the
\* request to /fail before the deadline, and the invocation returned 7.
C20_Witness ==
  /\ ScenarioDone /\ CommandCode = 7 /\ deadline = "pending"
  /\ FailRequestMade /\ task["arbiter"][1] = "ok"
  /\ anySuccess = Some(TRUE) /\ exitCode = Some(7)

\* the command runner failed to spawn the child
SpawnFailed == given.spawn_ok = Some(FALSE) /\ pc /= "spawn"

FanoutSpawned(f) ==
  \/ handle[f] = "awaiting"
  \/ handle[f] = "finished" /\ <<"warning: failed to create HTTP client", f, 0>> \notin printed

\* the per-target send has ended: answered, failed, or aborted by a panic
Ended(f, i) == task[f][i] \in {"ok", "fail", "panicked"}

\* C23: within a fan-out of dispatch_external_pings every target has its own
\* send, whatever its siblings did (succeeded, failed, still hanging, or
\* aborted): a running send can always resolve, a failed send has logged its
\* own warning and nothing else, and the handle has completed only when every
\* per-target send has ended, and can complete as soon as they have.
C23_SiblingFailuresIsolated ==
  \A f \in {"start", "completion"} :
    /\ FanoutSpawned(f) => \A i \in 1..monitors : task[f][i] /= "idle"
    /\ \A i \in Targets :
         /\ (task[f][i] = "inflight" /\ ~Returned) => ENABLED TargetResponds(f, i)
         /\ (<<"warning: external ping failed", f, i>> \in printed) <=> (task[f][i] = "fail")
         /\ (i > monitors) => (task[f][i] = "idle")
    /\ (handle[f] = "finished" /\ FanoutSpawned(f)) => \A i \in 1..monitors : Ended(f, i)
    /\ (handle[f] = "awaiting" /\ ~Returned /\ \A i \in 1..monitors : Ended(f, i))
         => ENABLED DispatcherJoin(f)

\* C23 witness: in the start fan-out target 1 failed while target 2 still
\* hangs; in the completion fan-out target 1 was answered although target 2
\* aborted, and the handle has completed.
C23_Witness ==
  /\ pc = "done"
  /\ task["start"][1] = "fail" /\ task["start"][2] = "inflight"
  /\ task["completion"][1] = "ok" /\ task["completion"][2] = "panicked"
  /\ handle["completion"] = "finished"

\* dispatch_external_pings returned Some(handle) for that fan-out
HandleCreated(f) == handle[f] \in {"spawned", "awaiting", "finished"}

\* C24 as claimed: when the invocation has returned, every handle the
\* dispatcher returned (start and completion fan-out) has been through its
\* bounded join, on every path, those ending with an error included.
C24_EveryHandleJoined ==
  Returned => \A f \in {"start", "completion"} : HandleCreated(f) => (pc = "done")

\* C25: the timeout handed to the arbiter is min(configured, 2000): never above
\* 2000 ms, never above the configured external timeout, and one of the two;
\* the dispatcher's fan-outs and the joins use the configured timeout as it is.
C25_ArbiterTimeoutCapped ==
  /\ \A t \in fanTimeout["arbiter"] :
       /\ t <= MIGRATION_MODE_TIMEOUT_MS
       /\ t <= args.external_timeout_ms
       /\ t \in {MIGRATION_MODE_TIMEOUT_MS, args.external_timeout_ms}
  /\ \A f \in {"start", "completion"} \cup Joins :
       \A t \in fanTimeout[f] : t = args.external_timeout_ms
  /\ (pc = "arbiter") => (fanTimeout["arbiter"] /= None)
  /\ (pc = "done" /\ HandleCreated("start")) => (fanTimeout["join_start"] /= None)

\* C25 witness: the configured timeout is above the cap: the arbiter ran with
\* 2000 ms while the start fan-out and its join ran with the configured value.
C25_Witness ==
  /\ pc = "done" /\ args.external_timeout_ms = MIGRATION_MODE_TIMEOUT_MS + 1
  /\ fanTimeout["arbiter"] = Some(MIGRATION_MODE_TIMEOUT_MS)
  /\ fanTimeout["start"] = Some(MIGRATION_MODE_TIMEOUT_MS + 1)
  /\ fanTimeout["join_start"] = Some(MIGRATION_MODE_TIMEOUT_MS + 1)

\* load_external_config has returned
ConfigLoaded == runId /= None

\* the file's migration_mode, when the file was read and parsed
FileMigrationMode ==
  \E c \in given.cfg : c.ok /\ c.migration_mode

\* C26 as claimed: whenever the CLI migration flag is true the effective
\* migration mode is true, for every file setting, load outcome and
\* --no-external.
C26_CliTrueAlwaysWins ==
  (ConfigLoaded /\ args.migration_mode) => migration

\* C26 amended: unless --no-external is given, the effective migration mode is
\* the CLI flag OR the file setting (a file that failed to load sets nothing),
\* so a true CLI flag wins over every file setting and load outcome; with
\* --no-external the effective migration mode is false whatever the flag.
C26_CliWinsUnlessNoExternal ==
  ConfigLoaded =>
    /\ ~args.no_external => (migration = (args.migration_mode \/ FileMigrationMode))
    /\ args.no_external => ~migration

\* C26 witness: the CLI flag is true, the file loads and says false, and the
\* effective migration mode is true.
C26_Witness ==
  /\ ConfigLoaded /\ args.migration_mode /\ ~args.no_external
  /\ \E c \in given.cfg : c.ok /\ ~c.migration_mode
  /\ migration

\* the phase of the invocation a position of execute belongs to: Init (1),
\* StartSent (2), Running (3), CompletionDecided (4), Resolved (5); 0 for an
\* invocation that ended with an error
Phase(p) ==
  CASE p \in {"validate", "resolve", "load_config"} -> 1
    [] p = "start_ping" -> 2
    [] p \in {"spawn", "running"} -> 3
    [] p \in {"completion_ping", "arbiter"} -> 4
    [] p \in {"join_start", "join_completion", "done"} -> 5
    [] OTHER -> 0

\* the step ends the invocation with the error of one of the fatal failures
FatalAbort ==
  /\ pc' = "aborted"
  /\ \/ pc = "validate" /\ args.command_empty
     \/ pc = "resolve" /\ given'.resolve_ok = Some(FALSE)
     \/ pc = "start_ping" /\ given'.start_ok = Some(FALSE)
     \/ pc = "spawn" /\ given'.spawn_ok = Some(FALSE)

\* a step of one invocation stays in its phase, moves to the next one, or is
\* a fatal abort; an ended invocation takes no further step
PhaseStep ==
  (run' = run) =>
    /\ Phase(pc) /= 0
    /\ \/ Phase(pc') = Phase(pc)
       \/ Phase(pc') = Phase(pc) + 1
       \/ FatalAbort

\* an exit code exists exactly in Resolved, and Resolved is entered with the
\* primary completion attempt decided
ExitCodeOnlyFromResolved ==
  /\ (Phase(pc) = 5) <=> (exitCode /= None)
  /\ (Phase(pc) = 5) => (\E r \in primary : r.kind = "completion" /\ r.outcome /= "pending")

ExternalActivity(f) ==
  \/ f \in {"start", "completion"} /\ handle[f] /= "undispatched"
  \/ fanTimeout[f] /= None
  \/ \E i \in Targets : task[f][i] /= "idle"

\* C28: no external send precedes the decision of the corresponding primary
\* attempt: the start fan-out exists only with the primary start ping answered
\* ok; the completion event is with the dispatcher only with the primary
\* completion attempt resolved, and with the arbiter only with it failed.
C28_ExternalsAfterPrimaryDecision ==
  /\ ExternalActivity("start") => PrimaryAnswered("start", "ok")
  /\ ExternalActivity("completion") =>
       (PrimaryAnswered("completion", "ok") \/ PrimaryAnswered("completion", "err"))
  /\ ExternalActivity("arbiter") => PrimaryAnswered("completion", "err")

\* C28 witness: sends of the start fan-out and of the arbiter are in flight,
\* after the primary start succeeded and the primary completion failed
C28_Witness ==
  /\ \E i \in Targets : task["start"][i] = "inflight"
  /\ \E i \in Targets : task["arbiter"][i] = "inflight"
  /\ PrimaryAnswered("start", "ok")
  /\ PrimaryAnswered("completion", "err")

\* the start fan-out as it is: its handle and its per-target sends
StartFanout == <<handle["start"], task["start"]>>

\* C29: dispatch_external_pings returns its handle without waiting for the
\* fan-out: the primary start ping returning ok leaves the handle of a task that
\* has not run yet; whatever the state of the start fan-out (not yet run,
\* requests in flight, finished), the command can be spawned, the command can
\* terminate and the primary completion attempt can resolve, each without any
\* step of the start fan-out.
C29_StartFanoutDoesNotDelayCommand ==
  /\ (pc = "start_ping" /\ FALSE \notin given.start_ok) =>
       ENABLED (SendStartPing /\ pc' = "spawn" /\ task' = task
                  /\ handle'["start"] = (IF monitors = 0 THEN "none" ELSE "spawned"))
  /\ (pc = "spawn") => ENABLED (SpawnCommand /\ UNCHANGED StartFanout)
  /\ (pc = "running") => ENABLED (CommandTerminates /\ UNCHANGED StartFanout)
  /\ (pc = "completion_ping") => ENABLED (SendPakyasCompletion /\ UNCHANGED StartFanout)

\* C29 witness: the command is executing while a request of the start fan-out
\* is in flight
C29_Witness ==
  /\ pc = "running"
  /\ handle["start"] = "awaiting"
  /\ \E i \in Targets : task["start"][i] = "inflight"

\* the arbiter's task for target i has its result and has not yet passed its send
HoldsResult(i) == task["arbiter"][i] \in {"ok", "fail"} /\ i \notin reported

\* the queue holds at most as many values as there are targets, and as there
\* are tasks that sent; a task holding its result can send at once; once the
\* arbiter has returned the queue is gone
QueueWithinCapacity ==
  /\ Len(queue) <= monitors
  /\ Len(queue) <= Cardinality(reported)
  /\ \A i \in Targets : (HoldsResult(i) /\ ~Returned) => ENABLED ArbiterTaskSend(i)
  /\ (anySuccess /= None) => (queue = <<>>)

\* a step that adds to the queue adds the one result of one task that had not
\* sent before; a task that has sent stays so; a send made after the arbiter
\* returned leaves no value anywhere and ends the task like any other send
OneWritePerTask ==
  (run' = run) =>
    /\ reported \subseteq reported'
    /\ (Len(queue') > Len(queue)) =>
         \E i \in Targets :
           /\ HoldsResult(i)
           /\ reported' = reported \cup {i}
           /\ queue' = Append(queue, task["arbiter"][i] = "ok")
    /\ \A i \in reported' \ reported :
         /\ task'["arbiter"][i] \in {"ok", "fail", "panicked"}
         /\ (task'["arbiter"][i] /= "panicked" /\ anySuccess = None) =>
              (queue' = Append(queue, task["arbiter"][i] = "ok"))
         /\ (anySuccess /= None) => (queue' = <<>> /\ pc' = pc /\ exitCode' = exitCode)

\* C30: each task of the arbiter writes at most one boolean to the queue
\* (exactly one when its send returns before the arbiter does); the queue of
\* capacity N never holds more than N values and no task is ever blocked on a
\* full queue; a write made after the arbiter has returned is discarded and the
\* task ends without blocking or failing.
C30_QueueNeverBlocks ==
  []QueueWithinCapacity /\ [][OneWritePerTask]_vars

\* C30 witness: every task has written its result and the queue is full, the
\* arbiter not having returned yet
C30_Witness ==
  /\ monitors = MaxTargets
  /\ Len(queue) = monitors
  /\ reported = 1..monitors
  /\ anySuccess = None

\* a send of fan-out f to target i has been attempted
Attempted(f, i) == task[f][i] /= "idle"

\* the three-armed match has handed the completion event to the dispatcher
ByDispatcher == HandleCreated("completion")

\* the three-armed match has handed the completion event to the arbiter
ByArbiter == fanTimeout["arbiter"] /= None

\* C31 as claimed: when the invocation has returned its exit code with every
\* dispatcher task run to its end, each target has had a send of the start
\* event, and a send of the completion event by the dispatcher or by the
\* arbiter, not by both and not by neither.
C31_EachEventSentOncePerTarget ==
  (/\ pc = "done"
   /\ handle["start"] = "finished"
   /\ handle["completion"] \in {"none", "finished"})
    => \A i \in 1..monitors :
         /\ Attempted("start", i)
         /\ Attempted("completion", i) /= Attempted("arbiter", i)

\* a send, once attempted, is not attempted again
AttemptedAtMostOnce ==
  (run' = run) =>
    \A f \in Fanouts, i \in Targets :
      /\ Attempted(f, i) => Attempted(f, i)'
      /\ (task'[f][i] = "inflight") => (task[f][i] \in {"idle", "inflight"})

\* the completion event goes to the dispatcher or to the arbiter, never to
\* both, and with targets configured to one of them; a fan-out that has built
\* its HTTP client has attempted one send per target, a fan-out that could not
\* build it has attempted none
OneSenderOfCompletion ==
  /\ ~(ByDispatcher /\ ByArbiter)
  /\ (Phase(pc) = 5 /\ monitors > 0) => (ByDispatcher \/ ByArbiter)
  /\ (Phase(pc) = 5 /\ monitors > 0) => HandleCreated("start")
  /\ \A i \in 1..monitors :
       /\ ~(Attempted("completion", i) /\ Attempted("arbiter", i))
       /\ \A f \in {"start", "completion"} :
            /\ FanoutSpawned(f) => Attempted(f, i)
            /\ Attempted(f, i) => FanoutSpawned(f)
       /\ (ByArbiter /\ ~ClientBuildFailed) => Attempted("arbiter", i)
       /\ Attempted("arbiter", i) => (ByArbiter /\ ~ClientBuildFailed)

\* C31 amended: in every invocation that reaches CompletionDecided with targets
\* configured, the start event is handed to the dispatcher and the completion
\* event is handed either to the dispatcher (primary succeeded, or failed with
\* migration off) or to the arbiter (primary failed with migration on), never
\* to both and never to neither; each fan-out that builds its HTTP client
\* attempts its send exactly once per target, and a fan-out whose client cannot
\* be built attempts no send at all.
C31_OneSenderOncePerTargetGivenClient ==
  []OneSenderOfCompletion /\ [][AttemptedAtMostOnce]_vars

\* C31 witness: every start send and every arbiter send was attempted, the
\* dispatcher having had no completion event
C31_Witness ==
  /\ pc = "done" /\ monitors = MaxTargets
  /\ \A i \in 1..monitors :
       Attempted("start", i) /\ Attempted("arbiter", i) /\ ~Attempted("completion", i)

\* C32: every invocation eventually returns (an exit code or a fatal error);
\* the arbiter, once entered, returns, even if no target ever responds; each
\* join in Resolved ends, even if a send of its fan-out hangs for ever.
C32_InvocationReturns ==
  /\ <>Returned
  /\ (pc = "arbiter") ~> (anySuccess /= None)
  /\ (pc = "join_start") ~> (pc = "join_completion")
  /\ (pc = "join_completion") ~> (pc = "done")

\* C32 witness: the invocation has returned its exit code although the arbiter
\* had no answer from any target and a send of the start fan-out still hangs
C32_Witness ==
  /\ pc = "done"
  /\ monitors > 0
  /\ deadline = "elapsed" /\ reported = {}
  /\ \A i \in 1..monitors : task["arbiter"][i] = "inflight" /\ task["start"][i] = "inflight"

\* the body of the primary completion request of a failed command is as
\* build_error_body is said to build it from r
ErrorBodyAsClaimed(r, body) ==
  /\ body.exit_code = r.exit_code
  /\ (body.signal /= None) <=> (r.signal /= None)
  /\ body.signal = r.signal
  /\ body.source = (IF ~IsBlank(r.stderr) THEN "stderr" ELSE "stdout")
  /\ body.truncated <=> (ByteLen(ErrorBodyText(r)) > ERROR_BODY_MAX_BYTES)
  /\ ~body.truncated => (body.text = ErrorBodyText(r))
  /\ body.truncated =>
       (body.text = SliceTo(ErrorBodyText(r), ERROR_BODY_MAX_BYTES) \o ErrorBodyMarker)
  /\ ByteLen(body.text) <= ERROR_BODY_MAX_BYTES + ByteLen(ErrorBodyMarker)

\* C33 as claimed: for every CommandResult of a failed command, multi-byte
\* text included, build_error_body returns a body: the exit code line, the
\* signal line exactly for a signal, the separator, then stderr when it is not
\* blank and stdout otherwise, cut to its first 102400 bytes with the marker
\* appended when it is longer.
C33_ErrorBodyForEveryResult ==
  \A r \in result :
    (r.exit_code /= 0 /\ ~PingEvent_completion(r.exit_code, SampleDurationMs, r.stderr).panicked)
      => /\ ~build_error_body(r).panicked
         /\ ErrorBodyAsClaimed(r, build_error_body(r).value)

\* the request to target i for event ev is the one the adapter of its kind is
\* said to build
RequestAsClaimed(i, ev) ==
  CASE TargetKind(i) = "healthchecks" ->
         /\ send_healthchecks(ev).url
              = "{endpoint}/{uuid}" \o (CASE ev.event_type = "Start" -> "/start"
                                          [] ev.event_type = "Success" -> ""
                                          [] ev.event_type = "Fail" -> "/fail")
         /\ (send_healthchecks(ev).method = "POST") <=> (ev.output /= None)
         /\ (send_healthchecks(ev).method = "GET") <=> (ev.output = None)
    [] TargetKind(i) = "cronitor" ->
         /\ ~send_cronitor(ev).panicked
         /\ send_cronitor(ev).value.method = "GET"
         /\ send_cronitor(ev).value.url
              = "{endpoint}/p/{api_key}/{monitor_key}?state="
                  \o (CASE ev.event_type = "Start" -> "run"
                        [] ev.event_type = "Success" -> "complete"
                        [] ev.event_type = "Fail" -> "fail")
         /\ (send_cronitor(ev).value.message /= None) <=> (ev.output /= None)
         /\ \A m \in send_cronitor(ev).value.message :
              /\ ByteLen(m) <= CRONITOR_MESSAGE_MAX
              /\ m = IF ByteLen(Unwrap(ev.output)) > CRONITOR_MESSAGE_MAX
                       THEN SliceTo(Unwrap(ev.output), CRONITOR_MESSAGE_MAX)
                       ELSE Unwrap(ev.output)
         /\ (send_cronitor(ev).value.metric /= None) <=> (ev.duration_ms /= None)
    [] TargetKind(i) = "webhook" ->
         /\ send_webhook(ev).method = "POST"
         /\ send_webhook(ev).json = ev

\* C34 as claimed: for every event handed to a target, the adapter of the
\* target's kind builds its request: healthchecks the suffix of the event type
\* and POST exactly with an output; cronitor a GET with the state, the message
\* (the first 2000 bytes of the output, for every output text) exactly with an
\* output and the metric exactly with a duration; webhook a POST of the event
\* as JSON; no send ends without a request.
C34_AdaptersBuildClaimedRequest ==
  \A f \in Fanouts, i \in 1..monitors :
    Attempted(f, i) =>
      /\ RequestAsClaimed(i, Unwrap(event[EventOf(f)]))
      /\ task[f][i] /= "panicked"

\* the wrapped command was terminated by a signal
KilledBySignal ==
  result /= None /\ \E s \in given.status : s.code = None /\ s.signal /= None

\* C35: a command terminated by a signal is recorded with exit_code 1 and the
\* signal number; its completion event is Fail, the primary completion request
\* is the POST to /1 with a body that has the Signal line, and the exit code
\* returned is never 0: it is 1 on the primary-success path.
C35_SignalIsFailure ==
  KilledBySignal =>
    /\ Unwrap(result).exit_code = 1
    /\ Unwrap(result).signal = Unwrap(given.status).signal
    /\ \A ev \in event["completion"] : ev.event_type = "Fail" /\ ev.exit_code = Some(1)
    /\ \A q \in primary :
         (q.kind = "completion")
           => /\ q.modifier = "/1" /\ q.method = "POST"
              /\ \A b \in q.body : b.exit_code = 1 /\ b.signal = Unwrap(given.status).signal
              /\ q.body /= None
    /\ (pc = "done") => (exitCode /= Some(0))
    /\ (pc = "done" /\ PrimaryAnswered("completion", "ok")) => (exitCode = Some(1))

\* C35 witness: the command was killed by a signal, the primary completion
\* ping succeeded and execute returned 1
C35_Witness ==
  /\ KilledBySignal /\ pc = "done"
  /\ PrimaryAnswered("completion", "ok")
  /\ exitCode = Some(1)
  /\ \E q \in primary : q.kind = "completion" /\ q.modifier = "/1"
                          /\ \E b \in q.body : b.signal = Some(SampleSignal)

\* the exit code execute returned was taken from the wrapped command: the
\* primary completion ping succeeded, or the arbiter rescued
CodeFromCommand ==
  pc = "done" /\ (PrimaryAnswered("completion", "ok") \/ anySuccess = Some(TRUE))

\* C36 as claimed: on every path where the exit code is taken from the wrapped
\* command, the exit code returned is 0 exactly when the command's reported
\* exit code is 0, for every 32-bit code the runner can report.
C36_ZeroExactlyForZero ==
  CodeFromCommand => ((exitCode = Some(0)) <=> (CommandCode = 0))

\* C37: an invocation that aborts fatally (empty command, identifier
\* resolution failure, primary start-ping failure, spawn failure) makes the
\* process exit with the generic failure code 1, which is neither the
\* monitoring-failure code nor a code taken from the wrapped command: the
\* command has no result at that point, or was never run.
C37_FatalAbortExitsOne ==
  (pc = "aborted")
    => /\ ProcessExitCode = Some(EXIT_FAILURE)
       /\ ProcessExitCode /= Some(EXIT_MONITORING_FAILURE)
       /\ result = None /\ exitCode = None
       /\ \/ args.command_empty
          \/ given.resolve_ok = Some(FALSE)
          \/ given.start_ok = Some(FALSE)
          \/ given.spawn_ok = Some(FALSE)

\* C37 witness: the identifier could not be resolved and the process exits 1
C37_Witness ==
  /\ pc = "aborted" /\ ~args.command_empty /\ given.resolve_ok = Some(FALSE)
  /\ ProcessExitCode = Some(EXIT_FAILURE)

\* the arbiter has returned
ArbiterReturned == ByArbiter /\ anySuccess /= None

JoinTimedOut(f) ==
  <<"warning: external " \o f \o " ping timed out", f, 0>> \in printed

\* a step of await_external_handles leaves the fan-out tasks as they are
JoinLeavesTasks ==
  (pc \in {"join_start", "join_completion"} /\ pc' /= pc)
    => (handle' = handle /\ task' = task)

\* after a wait that timed out, while execute has not returned, the fan-out's
\* task goes on: it can still spawn its sends, a send in flight can still
\* resolve, and the task can still end
AbandonedFanoutGoesOn ==
  \A f \in {"start", "completion"} :
    (JoinTimedOut(f) /\ ~Returned)
      => /\ handle[f] \in {"spawned", "awaiting", "finished"}
         /\ (handle[f] = "spawned") => ENABLED DispatcherSpawn(f)
         /\ \A i \in Targets :
              (task[f][i] = "inflight") => ENABLED TargetResponds(f, i)
         /\ (handle[f] = "awaiting" /\ \A i \in 1..monitors : Ended(f, i))
              => ENABLED DispatcherJoin(f)

\* C39: when the bounded wait on a dispatcher handle times out only the wait
\* ends: the step leaves the fan-out's task and its per-target sends as they
\* are, and they can still complete their requests afterwards.
C39_AbandonedJoinDoesNotCancel ==
  []AbandonedFanoutGoesOn /\ [][JoinLeavesTasks]_vars

\* C39 witness: the wait on the start handle timed out, and afterwards every
\* send of the start fan-out was answered and its task ended
C39_Witness ==
  /\ JoinTimedOut("start")
  /\ monitors = MaxTargets
  /\ handle["start"] = "finished"
  /\ \A i \in 1..monitors : task["start"][i] = "ok"

====
